---- MODULE Spec2Model ----
(***************************************************************************)
(* ValidationService (services/validation/src/ValidationService.ts):       *)
(* checkFiles reconciles a batch of files against the metadata documents   *)
(* found in it; checkPaths reads the batch from the disk.  Strings that    *)
(* the code inspects (declared paths, urls) are sequences of tokens; file  *)
(* contents are records; keccak256 is a free constructor (two contents     *)
(* have the same hash iff they are equal).                                 *)
(*                                                                         *)
(* Spec follows one call on a service, SpecTwice a call and the call a     *)
(* caller makes after it, SpecUnzip one call of unzip through its calls    *)
(* of fs, each of which may throw.                                         *)
(***************************************************************************)
EXTENDS Integers, Sequences, FiniteSets, TLC

\* ------------------------------------------------------------------ bounds
\* Plain (non JSON) texts are numbered 0..MaxContent; text 0 is the empty string.
MaxContent == 1
\* Largest number of entries of metadata.sources in a document.
MaxSources == 2
\* Largest number of metadata documents in a batch.
MaxMetadata == 2
\* Largest number of paths handed to checkPaths.
MaxPaths == 3
\* Largest number of calls made on one service.
MaxCalls == 2
\* Largest number of entries of an archive that unzip is followed through.
MaxEntries == 3

\* --------------------------------------------------------------- contents
\* JavaScript's undefined, as the content of a PathContent or of a sourceInfo.
Undefined == [enc |-> "undefined"]

PlainText(n) == [enc |-> "plain", body |-> n]

EmptyString == PlainText(0)

PlainTexts == {PlainText(n) : n \in 0..MaxContent}

\* A JSON document holding obj; doubly encoded (a JSON string holding a JSON
\* document, as truffle writes it); or an artifact that carries the escaped
\* metadata string among other fields.
JsonText(obj) == [enc |-> "json", obj |-> obj]

DoubleJsonText(obj) == [enc |-> "json2", obj |-> obj]

ArtifactText(obj) == [enc |-> "artifact", obj |-> obj]

\* JavaScript's null, as the result of a fetch that brought nothing.
Null == [enc |-> "null"]

\* A zip archive holding the given file contents.
ZipBuffer(entries) == [enc |-> "zip", entries |-> entries]

\* if (x) ... on a content: undefined, null and the empty string are falsy.
Truthy(content) == content # Undefined /\ content # Null /\ content # EmptyString

\* Web3.utils.keccak256
keccak256(content) == <<"keccak256", content>>

\* ---------------------------------------------------------------- strings
GITHUB_REGEX_test(s) ==
    /\ Len(s) >= 4
    /\ s[1] \in {"http://", "https://"}
    /\ s[2] = "github"
    /\ s[3] \in {".", "-", "/", "@"}
    /\ s[4] = "com"

IPFS_PREFIX == "dweb:/ipfs/"

startsWith(s, prefix) == Len(s) >= 1 /\ s[1] = prefix

RECURSIVE trimStart(_)
trimStart(s) == IF Len(s) >= 1 /\ s[1] = " " THEN trimStart(Tail(s)) ELSE s

RECURSIVE trimEnd(_)
trimEnd(s) ==
    IF Len(s) >= 1 /\ s[Len(s)] = " " THEN trimEnd(SubSeq(s, 1, Len(s) - 1)) ELSE s

trim(s) == trimEnd(trimStart(s))

\* String.prototype.replace with a string pattern: the first occurrence only.
RECURSIVE replace(_, _, _)
replace(s, from, to) ==
    IF s = <<>> THEN <<>>
    ELSE IF s[1] = from THEN <<to>> \o Tail(s)
    ELSE <<s[1]>> \o replace(Tail(s), from, to)

\* The authority of a url: what lies between the scheme and the first "/".
RECURSIVE upToSlash(_)
upToSlash(s) ==
    IF s = <<>> \/ s[1] = "/" THEN <<>> ELSE <<s[1]>> \o upToSlash(Tail(s))

Host(url) == upToSlash(Tail(url))

\* ------------------------------------------------------- metadata scanning
\* JSON.parse of a file content: it throws, or yields an object or a string.
JSON_parse(text) ==
    CASE text.enc = "json" -> [t |-> "object", obj |-> text.obj]
      [] text.enc = "json2" -> [t |-> "string", str |-> JsonText(text.obj)]
      [] text.enc = "artifact" ->
            [t |-> "object", obj |-> [contractName |-> "Storage", metadata |-> "escaped"]]
      [] OTHER -> [t |-> "throw"]

isMetadata(obj) ==
    /\ "language" \in DOMAIN obj
    /\ obj.language = "Solidity"
    /\ "compiler" \in DOMAIN obj

\* null when nothing was recognized.  A string is no metadata (it has no
\* language); JSON.parse of an object throws, which the catch turns into null.
extractMetadataFromString(file) ==
    LET first == JSON_parse(file)
    IN  IF first.t = "throw" THEN Null
        ELSE IF first.t = "object"
        THEN IF isMetadata(first.obj) THEN first.obj ELSE Null
        ELSE LET second == JSON_parse(first.str)
             IN  IF second.t = "object" /\ isMetadata(second.obj)
                 THEN second.obj
                 ELSE Null

\* file.content.match(NESTED_METADATA_REGEX): the escaped metadata string, which
\* is a doubly encoded document, or null.
NESTED_METADATA_REGEX_match(text) ==
    CASE text.enc = "artifact" -> DoubleJsonText(text.obj)
      [] text.enc = "json2" -> text
      [] OTHER -> Null

\* Lines 180-186: the metadata recognized in one file, or null.
recognize(file) ==
    LET metadata == extractMetadataFromString(file.content)
    IN  IF metadata # Null THEN metadata
        ELSE LET matchRes == NESTED_METADATA_REGEX_match(file.content)
             IN  IF matchRes # Null THEN extractMetadataFromString(matchRes) ELSE Null

\* Line 189 reads metadata.settings.compilationTarget and takes Object.keys of
\* it: a TypeError when settings or compilationTarget is missing.
settingsThrow(metadata) ==
    \/ "settings" \notin DOMAIN metadata
    \/ "compilationTarget" \notin DOMAIN metadata.settings

\* Line 189: Object.keys(metadata.settings.compilationTarget).length
compilationTargetsNumber(metadata) ==
    Cardinality(DOMAIN metadata.settings.compilationTarget)

\* Line 192: the message that is built when that number is not 1.  Nothing
\* is done with it.
compilationTargetMsg(metadata) ==
    "Metadata specifying " \o ToString(compilationTargetsNumber(metadata))
        \o " entries in compilationTarget; should be: 1"

\* findMetadataFiles without lines 198-202: an empty collection is returned.
RECURSIVE findMetadataLoopLenient(_, _, _)
findMetadataLoopLenient(heapObjs, i, metadataCollection) ==
    IF i > Len(heapObjs)
    THEN [threw |-> FALSE, error |-> "none", metadataCollection |-> metadataCollection]
    ELSE LET metadata == recognize(heapObjs[i])
         IN  IF metadata = Null
             THEN findMetadataLoopLenient(heapObjs, i + 1, metadataCollection)
             ELSE IF settingsThrow(metadata)
             THEN [threw |-> TRUE, error |-> "TypeError", metadataCollection |-> <<>>]
             ELSE findMetadataLoopLenient(heapObjs, i + 1,
                                          Append(metadataCollection, metadata))

\* [threw, error, metadataCollection]: the loop stops at the first document
\* whose settings cannot be read; with no document at all an Error is thrown.
RECURSIVE findMetadataLoop(_, _, _)
findMetadataLoop(heapObjs, i, metadataCollection) ==
    IF i > Len(heapObjs)
    THEN IF metadataCollection = <<>>
         THEN [threw |-> TRUE, error |-> "Error", metadataCollection |-> <<>>]
         ELSE [threw |-> FALSE, error |-> "none", metadataCollection |-> metadataCollection]
    ELSE LET metadata == recognize(heapObjs[i])
         IN  IF metadata = Null
             THEN findMetadataLoop(heapObjs, i + 1, metadataCollection)
             ELSE IF settingsThrow(metadata)
             THEN [threw |-> TRUE, error |-> "TypeError", metadataCollection |-> <<>>]
             ELSE findMetadataLoop(heapObjs, i + 1, Append(metadataCollection, metadata))

findMetadataFiles(heapObjs) == findMetadataLoop(heapObjs, 1, <<>>)

\* ------------------------------------------------------- archive expansion
isZip(buffer) == buffer.enc = "zip"

\* The files of the archive, each under the archive's own path.
unzip(zippedFile) ==
    [i \in 1..Len(zippedFile.buffer.entries) |->
        [path |-> zippedFile.path, buffer |-> zippedFile.buffer.entries[i]]]

\* for (const file of files): the loop also visits what unzip appends to files.
RECURSIVE findInputLoop(_, _, _)
findInputLoop(fileList, i, inputFiles) ==
    IF i > Len(fileList) THEN inputFiles
    ELSE IF isZip(fileList[i].buffer)
    THEN findInputLoop(fileList \o unzip(fileList[i]), i + 1, inputFiles)
    ELSE findInputLoop(fileList, i + 1, Append(inputFiles, fileList[i]))

findInputFiles(fileList) == findInputLoop(fileList, 1, <<>>)

\* ------------------------------------------------------------ file system
existsSync(d, path) == path \in DOMAIN d

Path_join(path, nestedName) == Append(path, nestedName)

Path_resolve(filePath) == <<"/cwd">> \o filePath

\* traversePathRecursively with a worker that collects: the files below path in
\* the order the worker sees them; threw when a path does not exist.
RECURSIVE traversePathRecursively(_, _)
RECURSIVE traverseNested(_, _, _, _)
traverseNested(d, path, names, visited) ==
    IF names = <<>> THEN [threw |-> FALSE, visited |-> visited]
    ELSE LET nested == traversePathRecursively(d, Path_join(path, Head(names)))
         IN  IF nested.threw
             THEN [threw |-> TRUE, visited |-> visited \o nested.visited]
             ELSE traverseNested(d, path, Tail(names), visited \o nested.visited)

traversePathRecursively(d, path) ==
    IF ~existsSync(d, path) THEN [threw |-> TRUE, visited |-> <<>>]
    ELSE IF d[path].kind = "file" THEN [threw |-> FALSE, visited |-> <<path>>]
    ELSE IF d[path].kind = "directory" THEN traverseNested(d, path, d[path].names, <<>>)
    ELSE [threw |-> FALSE, visited |-> <<>>]

PathBuffer(buffer, path) == [path |-> path, buffer |-> buffer]

\* Lines 79-90 with a return in the else branch: the loop ends at the first
\* path that does not exist.
RECURSIVE checkPathsLoopStrict(_, _, _, _, _)
checkPathsLoopStrict(d, pathList, i, fileList, ignored) ==
    IF i > Len(pathList)
    THEN [threw |-> FALSE, files |-> fileList, ignoring |-> ignored]
    ELSE IF existsSync(d, pathList[i])
    THEN LET below == traversePathRecursively(d, pathList[i])
             read == [j \in 1..Len(below.visited) |->
                        PathBuffer(d[below.visited[j]].buffer,
                                   Path_resolve(below.visited[j]))]
         IN  checkPathsLoopStrict(d, pathList, i + 1, fileList \o read, ignored)
    ELSE [threw |-> FALSE, files |-> fileList,
          ignoring |-> IF ignored.passed
                       THEN [ignored EXCEPT !.items = Append(@, pathList[i])]
                       ELSE ignored]

\* Lines 79-90: [threw, files, ignoring] after the loop over paths.
RECURSIVE checkPathsLoop(_, _, _, _, _)
checkPathsLoop(d, pathList, i, fileList, ignored) ==
    IF i > Len(pathList)
    THEN [threw |-> FALSE, files |-> fileList, ignoring |-> ignored]
    ELSE IF existsSync(d, pathList[i])
    THEN LET below == traversePathRecursively(d, pathList[i])
             read == [j \in 1..Len(below.visited) |->
                        PathBuffer(d[below.visited[j]].buffer,
                                   Path_resolve(below.visited[j]))]
         IN  IF below.threw
             THEN [threw |-> TRUE, files |-> fileList \o read, ignoring |-> ignored]
             ELSE checkPathsLoop(d, pathList, i + 1, fileList \o read, ignored)
    ELSE checkPathsLoop(d, pathList, i + 1, fileList,
                        IF ignored.passed
                        THEN [ignored EXCEPT !.items = Append(@, pathList[i])]
                        ELSE ignored)

\* ------------------------------------------------------------ hash index
\* The Map of storeByHash: a later file with the same hash replaces an earlier.
RECURSIVE storeByHashLoop(_, _, _)
storeByHashLoop(heapObjs, ids, byHash) ==
    IF ids = <<>> THEN byHash
    ELSE LET calculatedHash == keccak256(heapObjs[ids[1]].content)
         IN  storeByHashLoop(heapObjs, Tail(ids),
                [h \in DOMAIN byHash \cup {calculatedHash} |->
                    IF h = calculatedHash THEN ids[1] ELSE byHash[h]])

storeByHash(heapObjs, ids) == storeByHashLoop(heapObjs, ids, <<>>)

\* --------------------------------------------------------- remote fetching
IpfsGateway == <<"https://", "ipfs.infura.io:5001", "/", "api/v0/cat?arg=">>

NoUrl == <<>>

RECURSIVE firstIpfsUrl(_)
firstIpfsUrl(urls) ==
    IF urls = <<>> THEN NoUrl
    ELSE IF startsWith(urls[1], IPFS_PREFIX) THEN IpfsGateway \o Tail(urls[1])
    ELSE firstIpfsUrl(Tail(urls))

\* The url processFetching hands to performFetch, or NoUrl when it returns null
\* without fetching.
fetchUrl(fileName, urls) ==
    LET trimmed == trim(fileName)
    IN  IF GITHUB_REGEX_test(trimmed)
        THEN replace(trimmed, "github", "raw.githubusercontent")
        ELSE IF startsWith(trimmed, "@openzeppelin") THEN firstIpfsUrl(urls)
        ELSE NoUrl

\* performFetch without the comparison of line 292.
performFetchUnverified(res, hash) ==
    IF res.kind = "rejected"
    THEN [threw |-> TRUE, content |-> Null, log |-> <<"Fetching">>]
    ELSE IF res.status = 200
    THEN [threw |-> FALSE, content |-> res.body,
          log |-> <<"Fetching", "Successful fetching">>]
    ELSE [threw |-> FALSE, content |-> Null, log |-> <<"Fetching", "Failed fetching">>]

\* performFetch throwing where line 294 returns null.
performFetchThrowing(res, hash) ==
    IF res.kind = "rejected"
    THEN [threw |-> TRUE, content |-> Null, log |-> <<"Fetching">>]
    ELSE IF res.status = 200
    THEN IF keccak256(res.body) # hash
         THEN [threw |-> TRUE, content |-> Null,
               log |-> <<"Fetching", "fetched hash mismatch">>]
         ELSE [threw |-> FALSE, content |-> res.body,
               log |-> <<"Fetching", "Successful fetching">>]
    ELSE [threw |-> FALSE, content |-> Null, log |-> <<"Fetching", "Failed fetching">>]

\* performFetch on the transport's answer res: [threw, content, log].  A
\* rejected fetch(url) is not caught: the rejection leaves performFetch.
performFetch(res, hash) ==
    IF res.kind = "rejected"
    THEN [threw |-> TRUE, content |-> Null, log |-> <<"Fetching">>]
    ELSE IF res.status = 200
    THEN IF keccak256(res.body) # hash
         THEN [threw |-> FALSE, content |-> Null,
               log |-> <<"Fetching", "fetched hash mismatch">>]
         ELSE [threw |-> FALSE, content |-> res.body,
               log |-> <<"Fetching", "Successful fetching">>]
    ELSE [threw |-> FALSE, content |-> Null, log |-> <<"Fetching", "Failed fetching">>]

\* ------------------------------------------------------------- the inputs
PlainPath == <<"browser/", "1_Storage.sol">>

ScopedPath == <<"@openzeppelin", "/", "contracts/Ownable.sol">>

GithubPath == <<"https://", "github", ".", "com", "/", "owner/repo/Lib.sol">>

\* Matches GITHUB_REGEX as well: the regex neither escapes the dot nor ends the host.
LookalikePath == <<"https://", "github", ".", "com", ".evil.net", "/", "Lib.sol">>

DeclaredPaths == {PlainPath, ScopedPath, GithubPath, LookalikePath}

BzzrUrl == <<"bzzr://", "abc">>

IpfsUrl == <<IPFS_PREFIX, "QmHash">>

UrlLists == {<<>>, <<BzzrUrl, IpfsUrl>>}

\* The values of metadata.sources: content and urls are optional.
SourceInfos(contents, hashes, urlLists) ==
    UNION {
        {[keccak256 |-> h] : h \in hashes},
        {[keccak256 |-> h, content |-> c] : h \in hashes, c \in contents},
        {[keccak256 |-> h, urls |-> u] : h \in hashes, u \in urlLists},
        {[keccak256 |-> h, content |-> c, urls |-> u] :
            h \in hashes, c \in contents, u \in urlLists}}

\* metadata.sources, in declared order: at most n entries, each path once.
SourcesUpTo(n, paths, infos) ==
    UNION {
        {s \in [1..len -> paths \X infos] :
            \A i, j \in 1..len : s[i][1] = s[j][1] => i = j} :
        len \in 1..n}

Metadata(sources, targets) ==
    [language |-> "Solidity", compiler |-> [version |-> "0.6.6"],
     sources |-> sources,
     settings |-> [compilationTarget |-> [p \in targets |-> "Storage"]]]

MetadataFile(text) == [path |-> <<"metadata.json">>, buffer |-> text]

CandidatePaths == {<<"browser/", "1_Storage.sol">>, <<"other.sol">>}

CandidateFiles ==
    {[path |-> p, buffer |-> c] : p \in CandidatePaths, c \in PlainTexts}

DeclaredHashes == {keccak256(c) : c \in PlainTexts}

\* One document with every shape of entry, alone or after one candidate file.
RichDocuments ==
    {Metadata(s, {s[1][1]}) :
        s \in SourcesUpTo(MaxSources, DeclaredPaths,
                          SourceInfos(PlainTexts, DeclaredHashes, UrlLists))}

RichBatches ==
    {<<MetadataFile(JsonText(d))>> : d \in RichDocuments}
    \cup {<<f, MetadataFile(JsonText(d))>> : f \in CandidateFiles, d \in RichDocuments}

\* Several documents of one entry each, alone or after one candidate file.
SimpleDocuments ==
    {Metadata(s, {s[1][1]}) :
        s \in SourcesUpTo(1, {PlainPath, GithubPath},
                          SourceInfos({PlainText(MaxContent)},
                                      {keccak256(PlainText(MaxContent))}, {<<>>}))}

DocumentLists ==
    UNION {[1..n -> {MetadataFile(JsonText(d)) : d \in SimpleDocuments}] :
           n \in 2..MaxMetadata}

ManyBatches ==
    DocumentLists \cup {<<f>> \o l : f \in CandidateFiles, l \in DocumentLists}

\* Files in every encoding the scanner tells apart, recognized or not, and
\* documents whose settings have another shape than one compilation target.
ScanSources == <<<<PlainPath, [keccak256 |-> keccak256(PlainText(MaxContent))]>>>>

ScanObjects ==
    {Metadata(ScanSources, t) : t \in {{}, {PlainPath}, {PlainPath, ScopedPath}}}
    \cup {[language |-> "Solidity", compiler |-> [version |-> "0.6.6"],
           sources |-> ScanSources],
          [language |-> "Solidity", compiler |-> [version |-> "0.6.6"],
           sources |-> ScanSources, settings |-> [optimizer |-> "off"]],
          [language |-> "Yul", compiler |-> [version |-> "0.6.6"],
           sources |-> ScanSources],
          [language |-> "Solidity", sources |-> ScanSources]}

ScanTexts ==
    {JsonText(o) : o \in ScanObjects}
    \cup {DoubleJsonText(o) : o \in ScanObjects}
    \cup {ArtifactText(o) : o \in ScanObjects}
    \cup {PlainText(MaxContent)}

ScanFiles ==
    {[path |-> <<"input">>, buffer |-> t] : t \in ScanTexts}
    \cup {[path |-> <<"archive.zip">>,
           buffer |-> ZipBuffer(<<JsonText(Metadata(ScanSources, {PlainPath})),
                                  PlainText(MaxContent)>>)]}

ScanBatches == UNION {[1..n -> ScanFiles] : n \in 1..2}

\* One archive holding one document and the source it declares, in either
\* order: the source under a plain path or a github url, with or without urls,
\* empty or not.
ArchiveBatches ==
    {<<[path |-> <<"archive.zip">>, buffer |-> ZipBuffer(entries)]>> :
        entries \in UNION {UNION {
            {<<JsonText(Metadata(<<<<p, i>>>>, {p})), c>>,
             <<c, JsonText(Metadata(<<<<p, i>>>>, {p}))>>} :
            p \in {PlainPath, GithubPath},
            i \in SourceInfos({}, {keccak256(c)}, UrlLists)} : c \in PlainTexts}}

\* An archive inside an archive, alone or beside a source file.
InnerArchive ==
    ZipBuffer(<<JsonText(Metadata(ScanSources, {PlainPath})), PlainText(MaxContent)>>)

NestedBatches ==
    {<<PathBuffer(ZipBuffer(entries), <<"outer.zip">>)>> :
        entries \in {<<InnerArchive>>, <<InnerArchive, PlainText(MaxContent)>>,
                     <<EmptyString, InnerArchive>>}}

Batches ==
    RichBatches \cup ManyBatches \cup ScanBatches \cup ArchiveBatches
    \cup NestedBatches

\* What the transport may answer to a request.
Responses ==
    {[kind |-> "rejected"], [kind |-> "response", status |-> 404, body |-> EmptyString]}
    \cup {[kind |-> "response", status |-> 200, body |-> c] : c \in PlainTexts}

\* The values the constructor's parameter fetch?: false admits.
FetchFlags == {"undefined", "false"}

\* The files of the tests (test/files), and a path that is neither a file nor a
\* directory.
TestFiles ==
    [p \in {<<"single">>, <<"single", "1_Storage.sol">>, <<"single", "metadata.json">>,
            <<"device">>} |->
        CASE p = <<"single">> ->
                [kind |-> "directory", names |-> <<"1_Storage.sol", "metadata.json">>]
          [] p = <<"single", "1_Storage.sol">> ->
                [kind |-> "file", buffer |-> PlainText(MaxContent)]
          [] p = <<"single", "metadata.json">> ->
                [kind |-> "file", buffer |-> JsonText(Metadata(ScanSources, {PlainPath}))]
          [] OTHER -> [kind |-> "other"]]

\* The paths a caller hands to checkPaths: those of the tests and two that do
\* not exist.
PathNames == DOMAIN TestFiles \cup {<<"foobar.sol">>, <<"nothing">>}

PathLists == UNION {[1..n -> PathNames] : n \in 1..MaxPaths}

\* The optional parameter ignoring: left out, or an array.
NotPassed == [passed |-> FALSE, items |-> <<>>]

Passed(items) == [passed |-> TRUE, items |-> items]

\* ---------------------------------------------------------------- the state
VARIABLES
    fetch,             \* this.fetch, as the constructor received it
    disk,              \* the file system: path -> file or directory
    paths,             \* the paths handed to checkPaths
    ignoring,          \* checkPaths' optional array
    files,             \* the batch handed to checkFiles
    pc,                \* where the call stands
    error,             \* what the call threw, or "none"
    heap,              \* the PathContent objects, by identity
    parsedFiles,       \* checkFiles' parsedFiles, as identities
    metadataFiles,     \* checkFiles' metadataFiles
    m,                 \* position of the loop over metadataFiles
    k,                 \* position of the loop over metadata.sources
    hash2file,         \* rearrangeSources' index: hash -> identity
    foundSources,      \* path -> identity
    missingSources,    \* path -> {keccak256, urls}
    invalidSources,    \* path -> message
    checkedContracts,
    errorMsgMaterial,
    transport,         \* the requests issued so far, each with its answer
    log,               \* the messages handed to this.log
    earlier,           \* what the calls before this one returned to the caller
    unzipper           \* one call of unzip, step by step

vars == <<fetch, disk, paths, ignoring, files, pc, error, heap, parsedFiles,
          metadataFiles, m, k, hash2file, foundSources, missingSources,
          invalidSources, checkedContracts, errorMsgMaterial, transport, log,
          earlier, unzipper>>

\* What no step of checkFiles touches.
outside == <<fetch, disk, paths, ignoring, earlier, unzipper>>

EmptyMap == <<>>

Put(map, key, value) ==
    [x \in DOMAIN map \cup {key} |-> IF x = key THEN value ELSE map[x]]

\* The locals of a call before its first step.
Entered ==
    /\ error = "none"
    /\ heap = <<>>
    /\ parsedFiles = <<>>
    /\ metadataFiles = <<>>
    /\ m = 0
    /\ k = 0
    /\ hash2file = EmptyMap
    /\ foundSources = EmptyMap
    /\ missingSources = EmptyMap
    /\ invalidSources = EmptyMap
    /\ checkedContracts = <<>>
    /\ errorMsgMaterial = <<>>
    /\ transport = <<>>
    /\ log = <<>>

\* A service as its constructor leaves it, on the disk of the tests.
Constructed ==
    /\ fetch \in FetchFlags
    /\ disk = TestFiles
    /\ earlier = <<>>
    /\ unzipper = [pc |-> "idle"]

\* A service and the first call on it: checkFiles on a batch, or checkPaths.
Init ==
    /\ Constructed
    /\ \/ /\ pc = "checkFiles"
          /\ files \in Batches
          /\ paths = <<>>
          /\ ignoring = NotPassed
       \/ /\ pc = "checkPaths"
          /\ files = <<>>
          /\ paths \in PathLists
          /\ ignoring \in {NotPassed, Passed(<<>>)}
    /\ Entered

\* -------------------------------------------------------------- checkPaths
\* Lines 78-92: the files of the existing paths are read, the other paths go to
\* ignoring when it was passed, and checkFiles takes over.
CheckPaths ==
    /\ pc = "checkPaths"
    /\ LET collected == checkPathsLoop(disk, paths, 1, <<>>, ignoring)
       IN  /\ files' = collected.files
           /\ ignoring' = collected.ignoring
           /\ pc' = IF collected.threw THEN "failed" ELSE "checkFiles"
           /\ error' = IF collected.threw THEN "Error" ELSE error
           /\ log' = IF collected.threw
                     THEN Append(log, "Encountered a nonexistent path")
                     ELSE log
    /\ UNCHANGED <<fetch, disk, paths, earlier, unzipper, heap, parsedFiles,
                   metadataFiles, m, k, hash2file, foundSources, missingSources,
                   invalidSources, checkedContracts, errorMsgMaterial, transport>>

\* -------------------------------------------------------------- checkFiles
\* Lines 96-97: the PathContent objects of the expanded batch.
parse(fileList) ==
    LET inputFiles == findInputFiles(fileList)
    IN  [i \in 1..Len(inputFiles) |->
            [path |-> inputFiles[i].path, content |-> inputFiles[i].buffer]]

\* checkFiles up to its loop, when findMetadataFiles throws.
CheckFilesThrows ==
    /\ pc = "checkFiles"
    /\ LET scanned == findMetadataFiles(parse(files))
       IN  /\ scanned.threw
           /\ error' = scanned.error
           /\ log' = IF scanned.error = "Error"
                     THEN Append(log, "Metadata file not found")
                     ELSE log
    /\ pc' = "failed"
    /\ UNCHANGED <<outside, files, heap, parsedFiles, metadataFiles, m, k, hash2file,
                   foundSources, missingSources, invalidSources, checkedContracts,
                   errorMsgMaterial, transport>>

\* checkFiles up to its loop, when metadata was found.
CheckFilesScans ==
    /\ pc = "checkFiles"
    /\ LET scanned == findMetadataFiles(parse(files))
       IN  /\ ~scanned.threw
           /\ metadataFiles' = scanned.metadataCollection
    /\ heap' = parse(files)
    /\ parsedFiles' = [i \in 1..Len(parse(files)) |-> i]
    /\ m' = 1
    /\ pc' = IF findMetadataFiles(parse(files)).metadataCollection # <<>>
             THEN "rearrangeSources"
             ELSE "done"
    /\ UNCHANGED <<outside, files, error, k, hash2file, foundSources, missingSources,
                   invalidSources, checkedContracts, errorMsgMaterial, transport, log>>

\* Lines 215-218 with an index that checkFiles builds once: the documents after
\* the first go on with the index as the document before left it.
RearrangeSourcesSharesIndex ==
    /\ pc = "rearrangeSources"
    /\ foundSources' = EmptyMap
    /\ missingSources' = EmptyMap
    /\ invalidSources' = EmptyMap
    /\ hash2file' = IF m = 1 THEN storeByHash(heap, parsedFiles) ELSE hash2file
    /\ k' = 1
    /\ pc' = "sources"
    /\ UNCHANGED <<outside, files, error, heap, parsedFiles, metadataFiles, m,
                   checkedContracts, errorMsgMaterial, transport, log>>

\* Lines 215-218.
RearrangeSourcesBegins ==
    /\ pc = "rearrangeSources"
    /\ foundSources' = EmptyMap
    /\ missingSources' = EmptyMap
    /\ invalidSources' = EmptyMap
    /\ hash2file' = storeByHash(heap, parsedFiles)
    /\ k' = 1
    /\ pc' = "sources"
    /\ UNCHANGED <<outside, files, error, heap, parsedFiles, metadataFiles, m,
                   checkedContracts, errorMsgMaterial, transport, log>>

\* ------------------------------------------ one entry of metadata.sources
metadata == metadataFiles[m]

fileName == metadata.sources[k][1]

sourceInfo == metadata.sources[k][2]

inlineContent ==
    IF "content" \in DOMAIN sourceInfo THEN sourceInfo.content ELSE Undefined

hash == sourceInfo.keccak256

\* The identity of new PathContent(undefined).
fresh == Len(heap) + 1

\* Lines 225-233 when the entry is not invalid: the object the entry goes on with.
file ==
    IF Truthy(inlineContent) THEN fresh
    ELSE IF hash \in DOMAIN hash2file THEN hash2file[hash]
    ELSE fresh

\* Without line 223: the new PathContent keeps its undefined content.
fileContentWithoutInline == IF file = fresh THEN Undefined ELSE heap[file].content

fileContent == IF file = fresh THEN inlineContent ELSE heap[file].content

\* Line 235 without its test of sourceInfo.urls.
requestedUrlUnguarded ==
    IF ~Truthy(fileContent)
    THEN fetchUrl(fileName, IF "urls" \in DOMAIN sourceInfo THEN sourceInfo.urls ELSE <<>>)
    ELSE NoUrl

\* Line 235 and processFetching: the url requested for this entry, or NoUrl.
requestedUrl ==
    IF ~Truthy(fileContent) /\ "urls" \in DOMAIN sourceInfo
    THEN fetchUrl(fileName, sourceInfo.urls)
    ELSE NoUrl

missingEntry ==
    IF "urls" \in DOMAIN sourceInfo
    THEN [keccak256 |-> hash, urls |-> sourceInfo.urls]
    ELSE [keccak256 |-> hash]

\* file.content = content, on the heap; a fresh object enters the heap here.
setContent(content) ==
    IF file = fresh
    THEN Append(heap, [path |-> <<>>, content |-> content])
    ELSE [heap EXCEPT ![file].content = content]

\* Lines 225-230 without the continue of line 229: the entry is classified again.
SourceInvalidFallsThrough ==
    /\ pc = "sources"
    /\ k <= Len(metadata.sources)
    /\ Truthy(inlineContent)
    /\ keccak256(inlineContent) # hash
    /\ invalidSources' =
          Put(invalidSources, fileName,
              "The calculated and the provided hash values don't match.")
    /\ foundSources' = Put(foundSources, fileName, fresh)
    /\ heap' = Append(heap, [path |-> <<>>, content |-> inlineContent])
    /\ k' = k + 1
    /\ UNCHANGED <<outside, files, pc, error, parsedFiles, metadataFiles, m, hash2file,
                   missingSources, checkedContracts, errorMsgMaterial,
                   transport, log>>

\* Lines 225-230: inline content with another hash.
SourceInvalid ==
    /\ pc = "sources"
    /\ k <= Len(metadata.sources)
    /\ Truthy(inlineContent)
    /\ keccak256(inlineContent) # hash
    /\ invalidSources' =
          Put(invalidSources, fileName,
              "The calculated and the provided hash values don't match.")
    /\ k' = k + 1
    /\ UNCHANGED <<outside, files, pc, error, heap, parsedFiles, metadataFiles, m, hash2file,
                   foundSources, missingSources, checkedContracts, errorMsgMaterial,
                   transport, log>>

\* Lines 231-247 when nothing is requested from the transport.
SourceResolved ==
    /\ pc = "sources"
    /\ k <= Len(metadata.sources)
    /\ ~(Truthy(inlineContent) /\ keccak256(inlineContent) # hash)
    /\ requestedUrl = NoUrl
    /\ IF Truthy(fileContent)
       THEN /\ foundSources' = Put(foundSources, fileName, file)
            /\ heap' = setContent(fileContent)
            /\ UNCHANGED missingSources
       ELSE /\ missingSources' = Put(missingSources, fileName, missingEntry)
            /\ UNCHANGED <<foundSources, heap>>
    /\ k' = k + 1
    /\ UNCHANGED <<outside, files, pc, error, parsedFiles, metadataFiles, m, hash2file,
                   invalidSources, checkedContracts, errorMsgMaterial, transport, log>>

\* Lines 235-247 with a request: the transport answers res.
SourceFetched ==
    /\ pc = "sources"
    /\ k <= Len(metadata.sources)
    /\ ~(Truthy(inlineContent) /\ keccak256(inlineContent) # hash)
    /\ requestedUrl # NoUrl
    /\ \E res \in Responses :
          LET fetched == performFetch(res, hash)
          IN  /\ transport' = Append(transport,
                    [m |-> m, fileName |-> fileName, url |-> requestedUrl, res |-> res])
              /\ log' = log \o fetched.log
              /\ IF fetched.threw
                 THEN /\ pc' = "failed"
                      /\ error' = "FetchError"
                      /\ UNCHANGED <<heap, hash2file, foundSources, missingSources, k>>
                 ELSE /\ IF Truthy(fetched.content)
                         THEN /\ hash2file' = Put(hash2file, hash, file)
                              /\ heap' = setContent(fetched.content)
                              /\ foundSources' = Put(foundSources, fileName, file)
                              /\ UNCHANGED missingSources
                         ELSE /\ missingSources' =
                                    Put(missingSources, fileName, missingEntry)
                              /\ UNCHANGED <<heap, hash2file, foundSources>>
                      /\ k' = k + 1
                      /\ UNCHANGED <<pc, error>>
    /\ UNCHANGED <<outside, files, parsedFiles, metadataFiles, m, invalidSources,
                   checkedContracts, errorMsgMaterial>>

\* ------------------------------------------------------- CheckedContract
CheckedContract(md, found, missing, invalid) ==
    [metadata |-> md, solidity |-> found, missing |-> missing, invalid |-> invalid]

isValid(contract) == contract.missing = EmptyMap /\ contract.invalid = EmptyMap

\* Lines 105-117: the contract of the document just reconciled; then the next
\* document, or the summary is logged and checkFiles returns.
ContractChecked ==
    /\ pc = "sources"
    /\ k > Len(metadata.sources)
    /\ LET checkedContract ==
              CheckedContract(metadata, foundSources, missingSources, invalidSources)
           material == IF ~isValid(checkedContract)
                       THEN Append(errorMsgMaterial, m)
                       ELSE errorMsgMaterial
       IN  /\ checkedContracts' = Append(checkedContracts, checkedContract)
           /\ errorMsgMaterial' = material
           /\ IF m < Len(metadataFiles)
              THEN /\ m' = m + 1
                   /\ pc' = "rearrangeSources"
                   /\ UNCHANGED log
              ELSE /\ pc' = "done"
                   /\ log' = IF material # <<>> THEN Append(log, "info") ELSE log
                   /\ UNCHANGED m
    /\ UNCHANGED <<outside, files, error, heap, parsedFiles, metadataFiles, k, hash2file,
                   foundSources, missingSources, invalidSources, transport>>

Next ==
    \/ CheckPaths
    \/ CheckFilesThrows
    \/ CheckFilesScans
    \/ RearrangeSourcesBegins
    \/ SourceInvalid
    \/ SourceResolved
    \/ SourceFetched
    \/ ContractChecked

Spec == Init /\ [][Next]_vars

\* ------------------------------------------------ several calls on a service
\* A contract as its caller reads it: the found contents by declared path.
Returned(contract) ==
    [metadata |-> contract.metadata,
     solidity |-> [path \in DOMAIN contract.solidity |->
                      heap[contract.solidity[path]].content],
     missing |-> contract.missing,
     invalid |-> contract.invalid]

\* What a finished call leaves to its caller: the contracts or the exception,
\* and beside it what the call was given and what it requested.
Outcome ==
    [pc |-> pc, error |-> error, paths |-> paths, ignoring |-> ignoring,
     files |-> files,
     contracts |-> IF pc = "done"
                   THEN [i \in DOMAIN checkedContracts |-> Returned(checkedContracts[i])]
                   ELSE <<>>,
     transport |-> transport]

\* The metadata of a returned contract with each found content put back as the
\* inline content of its declared source.
WithInlineContent(contract) ==
    [contract.metadata EXCEPT !.sources =
        [i \in DOMAIN @ |->
            IF @[i][1] \in DOMAIN contract.solidity
            THEN <<@[i][1],
                   [field \in DOMAIN @[i][2] \cup {"content"} |->
                       IF field = "content"
                       THEN contract.solidity[@[i][1]]
                       ELSE @[i][2][field]]>>
            ELSE @[i]]]

\* The files of a batch in which no metadata is recognized.
CandidatesOf(batch) ==
    SelectSeq(parse(batch), LAMBDA f : recognize(f) = Null)

\* The calls a caller makes after a call: the metadata of a valid contract fed
\* back with its sources inline, alone or with one candidate of the batch.
RoundTrips(outcome) ==
    LET again == {MetadataFile(JsonText(WithInlineContent(outcome.contracts[i]))) :
                     i \in {j \in DOMAIN outcome.contracts :
                                isValid(outcome.contracts[j])}}
        beside == {<<>>} \cup {<<PathBuffer(c.content, c.path)>> :
                                  c \in {CandidatesOf(outcome.files)[i] :
                                            i \in DOMAIN CandidatesOf(outcome.files)}}
    IN  {[pc |-> "checkFiles", files |-> b \o <<f>>, paths |-> <<>>,
          ignoring |-> NotPassed] : f \in again, b \in beside}

\* A batch with the entries of its archives supplied as files of their own.
RECURSIVE Unpacked(_)
Unpacked(batch) ==
    IF batch = <<>> THEN <<>>
    ELSE IF isZip(Head(batch).buffer)
    THEN [i \in 1..Len(Head(batch).buffer.entries) |->
             PathBuffer(Head(batch).buffer.entries[i], <<"unpacked">>)]
         \o Unpacked(Tail(batch))
    ELSE <<Head(batch)>> \o Unpacked(Tail(batch))

\* After a batch with an archive, the same files unpacked.
Unpackings(outcome) ==
    IF \E i \in DOMAIN outcome.files : isZip(outcome.files[i].buffer)
    THEN {[pc |-> "checkFiles", files |-> Unpacked(outcome.files), paths |-> <<>>,
           ignoring |-> NotPassed]}
    ELSE {}

\* After checkPaths with an ignoring array, checkPaths over the paths that exist.
ExistingAlone(outcome) ==
    IF outcome.paths # <<>> /\ outcome.ignoring.passed
    THEN {[pc |-> "checkPaths", files |-> <<>>,
           paths |-> SelectSeq(outcome.paths, LAMBDA path : existsSync(disk, path)),
           ignoring |-> Passed(<<>>)]}
    ELSE {}

\* After a batch of several metadata files, the batch with one of them only.
Alone(outcome) ==
    LET documents == {i \in DOMAIN outcome.files :
                         ~isZip(outcome.files[i].buffer)
                         /\ recognize([content |-> outcome.files[i].buffer]) # Null}
    IN  IF Cardinality(documents) >= 2
        THEN {[pc |-> "checkFiles",
               files |-> SelectSeq(outcome.files,
                            LAMBDA f : \/ f = outcome.files[i]
                                       \/ isZip(f.buffer)
                                       \/ recognize([content |-> f.buffer]) = Null),
               paths |-> <<>>, ignoring |-> NotPassed] : i \in documents}
        ELSE {}

FollowUps(outcome) ==
    RoundTrips(outcome) \cup Unpackings(outcome) \cup ExistingAlone(outcome)
    \cup Alone(outcome)

\* The caller takes the result of a call and calls the service again.
CallAgain ==
    /\ pc \in {"done", "failed"}
    /\ Len(earlier) < MaxCalls - 1
    /\ earlier' = Append(earlier, Outcome)
    /\ \E call \in FollowUps(Outcome) :
          /\ pc' = call.pc
          /\ files' = call.files
          /\ paths' = call.paths
          /\ ignoring' = call.ignoring
    /\ error' = "none"
    /\ heap' = <<>>
    /\ parsedFiles' = <<>>
    /\ metadataFiles' = <<>>
    /\ m' = 0
    /\ k' = 0
    /\ hash2file' = EmptyMap
    /\ foundSources' = EmptyMap
    /\ missingSources' = EmptyMap
    /\ invalidSources' = EmptyMap
    /\ checkedContracts' = <<>>
    /\ errorMsgMaterial' = <<>>
    /\ transport' = <<>>
    /\ log' = <<>>
    /\ UNCHANGED <<fetch, disk, unzipper>>

NextTwice == Next \/ CallAgain

SpecTwice == Init /\ [][NextTwice]_vars

\* ------------------------------------------------- unzip, call by call of fs
\* Date.now().toString() at line 159.
Timestamps == {"1604300000000", "1604300000001"}

\* The names under which the entries of an archive are extracted.
EntryNames == <<"a.sol", "b.sol", "c.sol", "d.sol">>

EntryContents ==
    {EmptyString, PlainText(MaxContent), JsonText(Metadata(ScanSources, {PlainPath}))}

Archives ==
    {PathBuffer(ZipBuffer(entries), <<"archive.zip">>) :
        entries \in UNION {[1..n -> EntryContents] : n \in 1..MaxEntries}}

tmpDir == <<"tmp-unzipped-", unzipper.timestamp>>

\* The disk after extractAllTo has written the first n entries into directory.
Extracted(d, directory, entries, n) ==
    [p \in DOMAIN d \cup {directory}
            \cup {Path_join(directory, EntryNames[i]) : i \in 1..n} |->
        IF p = directory
        THEN [kind |-> "directory", names |-> SubSeq(EntryNames, 1, n)]
        ELSE IF \E i \in 1..n : p = Path_join(directory, EntryNames[i])
        THEN [kind |-> "file",
              buffer |-> entries[CHOOSE i \in 1..n :
                                    p = Path_join(directory, EntryNames[i])]]
        ELSE d[p]]

\* fs.unlinkSync: the file is gone, and its directory no longer lists it.
unlinkSync(d, filePath) ==
    LET directory == SubSeq(filePath, 1, Len(filePath) - 1)
    IN  [p \in DOMAIN d \ {filePath} |->
            IF p = directory
            THEN [d[p] EXCEPT !.names =
                     SelectSeq(@, LAMBDA name : name # filePath[Len(filePath)])]
            ELSE d[p]]

\* fs.rmdirSync of an empty directory.
rmdirSync(d, path) == [p \in DOMAIN d \ {path} |-> d[p]]

InitUnzip ==
    /\ fetch \in FetchFlags
    /\ disk = TestFiles
    /\ earlier = <<>>
    /\ \E zippedFile \in Archives, timestamp \in Timestamps :
          /\ unzipper = [pc |-> "extract", zippedFile |-> zippedFile,
                         timestamp |-> timestamp, files |-> <<>>, position |-> 1]
          /\ files = <<zippedFile>>
    /\ pc = "findInputFiles"
    /\ paths = <<>>
    /\ ignoring = NotPassed
    /\ Entered

\* What a step of unzip leaves alone.
inside == <<fetch, paths, ignoring, files, pc, error, heap, parsedFiles,
            metadataFiles, m, k, hash2file, foundSources, missingSources,
            invalidSources, checkedContracts, errorMsgMaterial, transport, log,
            earlier>>

\* Line 162: every entry is written to tmpDir.
UnzipExtracts ==
    /\ unzipper.pc = "extract"
    /\ disk' = Extracted(disk, tmpDir, unzipper.zippedFile.buffer.entries,
                         Len(unzipper.zippedFile.buffer.entries))
    /\ unzipper' = [unzipper EXCEPT !.pc = "read"]
    /\ UNCHANGED inside

\* Line 162 when extractAllTo throws after it has written some of the entries
\* (an entry that cannot be inflated, a full disk).
UnzipExtractThrows ==
    /\ unzipper.pc = "extract"
    /\ \E written \in 0..(Len(unzipper.zippedFile.buffer.entries) - 1) :
          disk' = IF written = 0
                  THEN disk
                  ELSE Extracted(disk, tmpDir, unzipper.zippedFile.buffer.entries,
                                 written)
    /\ unzipper' = [unzipper EXCEPT !.pc = "thrown"]
    /\ UNCHANGED inside

\* Lines 164-167: the worker reads the next file of the traversal and pushes it
\* to files under the path of the archive.
UnzipReads ==
    /\ unzipper.pc = "read"
    /\ LET visited == traversePathRecursively(disk, tmpDir).visited
       IN  IF unzipper.position <= Len(visited)
           THEN unzipper' =
                   [unzipper EXCEPT
                       !.files = Append(@, PathBuffer(
                                     disk[visited[unzipper.position]].buffer,
                                     unzipper.zippedFile.path)),
                       !.position = @ + 1]
           ELSE unzipper' = [unzipper EXCEPT !.pc = "remove", !.position = 1]
    /\ UNCHANGED <<disk, inside>>

\* Line 168: fs.unlinkSync as worker on the next file, then fs.rmdirSync as
\* afterDirectory on tmpDir, and unzip returns.
UnzipRemoves ==
    /\ unzipper.pc = "remove"
    /\ LET visited == traversePathRecursively(disk, tmpDir).visited
       IN  IF visited # <<>>
           THEN /\ disk' = unlinkSync(disk, visited[1])
                /\ UNCHANGED unzipper
           ELSE /\ disk' = rmdirSync(disk, tmpDir)
                /\ unzipper' = [unzipper EXCEPT !.pc = "returned"]
    /\ UNCHANGED inside

\* A call of fs in one of the two traversals throws (readFileSync, unlinkSync,
\* rmdirSync): nothing catches it in unzip, the disk stays as it is.
UnzipThrows ==
    /\ unzipper.pc \in {"read", "remove"}
    /\ unzipper.pc = "read" =>
          unzipper.position <= Len(traversePathRecursively(disk, tmpDir).visited)
    /\ unzipper' = [unzipper EXCEPT !.pc = "thrown"]
    /\ UNCHANGED <<disk, inside>>

NextUnzip ==
    \/ UnzipExtracts
    \/ UnzipExtractThrows
    \/ UnzipReads
    \/ UnzipRemoves
    \/ UnzipThrows

SpecUnzip == InitUnzip /\ [][NextUnzip]_vars

\* ------------------------------------------------------------------ claims
DeclaredPathsOf(md) == {md.sources[i][1] : i \in DOMAIN md.sources}

InfoOf(md, path) ==
    md.sources[CHOOSE i \in DOMAIN md.sources : md.sources[i][1] = path][2]

Contracts == {checkedContracts[i] : i \in DOMAIN checkedContracts}

\* The requests issued for the entry path of the document at position i.
RequestsFor(i, path) ==
    {j \in DOMAIN transport : transport[j].m = i /\ transport[j].fileName = path}

\* C1: in every contract returned by rearrangeSources, the content recorded for
\* a found path hashes to the hash that the metadata declares for that path.
C1_FoundHashesToDeclared ==
    \A c \in Contracts :
        \A path \in DOMAIN c.solidity :
            /\ path \in DeclaredPathsOf(c.metadata)
            /\ keccak256(heap[c.solidity[path]].content)
                  = InfoOf(c.metadata, path).keccak256

\* A contract with a path found through a fetch, and beside it a path that is
\* missing although a file of the batch carries that very name.
C1_Witness ==
    \E i \in DOMAIN checkedContracts :
        LET c == checkedContracts[i]
        IN  /\ \E path \in DOMAIN c.solidity :
                  \E j \in RequestsFor(i, path) :
                      /\ transport[j].res.kind = "response"
                      /\ transport[j].res.status = 200
            /\ \E path \in DOMAIN c.missing :
                  \E f \in DOMAIN files : files[f].path = path

\* C2: in every contract returned by rearrangeSources, each declared path is a
\* key of exactly one of the three maps, and the maps have no other key.
C2_ExactlyOneClassification ==
    \A c \in Contracts :
        /\ DOMAIN c.solidity \cup DOMAIN c.missing \cup DOMAIN c.invalid
              = DeclaredPathsOf(c.metadata)
        /\ DOMAIN c.solidity \cap DOMAIN c.missing = {}
        /\ DOMAIN c.solidity \cap DOMAIN c.invalid = {}
        /\ DOMAIN c.missing \cap DOMAIN c.invalid = {}

\* A contract of two entries, one of them invalid and the other one not.
C2_Witness ==
    \E c \in Contracts :
        /\ Cardinality(DeclaredPathsOf(c.metadata)) = 2
        /\ Cardinality(DOMAIN c.invalid) = 1

\* Some file of the expanded batch has a content with this hash.
CandidateWithHash(h) ==
    \E f \in DOMAIN parsedFiles : keccak256(heap[parsedFiles[f]].content) = h

\* C3: a declared source without inline content whose declared hash is the
\* hash of some candidate file is found, with that candidate's content, and
\* is neither missing nor invalid.
C3_CandidateWithDeclaredHashIsFound ==
    \A c \in Contracts :
        \A path \in DeclaredPathsOf(c.metadata) :
            LET info == InfoOf(c.metadata, path)
            IN  ("content" \notin DOMAIN info /\ CandidateWithHash(info.keccak256))
                => /\ path \in DOMAIN c.solidity
                   /\ \A f \in DOMAIN parsedFiles :
                         keccak256(heap[parsedFiles[f]].content) = info.keccak256
                         => heap[c.solidity[path]].content
                               = heap[parsedFiles[f]].content
                   /\ path \notin DOMAIN c.missing
                   /\ path \notin DOMAIN c.invalid

\* C4: a declared source whose inline content has another hash than the
\* declared one is invalid, is neither found nor missing, and no request was
\* issued for it.
C4_WrongInlineContentIsInvalid ==
    \A i \in DOMAIN checkedContracts :
        LET c == checkedContracts[i]
        IN  \A path \in DeclaredPathsOf(c.metadata) :
                LET info == InfoOf(c.metadata, path)
                IN  ("content" \in DOMAIN info
                        /\ keccak256(info.content) # info.keccak256)
                    => /\ path \in DOMAIN c.invalid
                       /\ path \notin DOMAIN c.solidity
                       /\ path \notin DOMAIN c.missing
                       /\ RequestsFor(i, path) = {}

\* No file of the expanded batch is recognized as metadata.
NoMetadataRecognized ==
    \A i \in DOMAIN parse(files) : recognize(parse(files)[i]) = Null

\* C5: once checkFiles has scanned a batch in which no metadata is recognized,
\* it has failed with an Error, there is no contract, and nothing was
\* reconciled or requested.
C5_NoMetadataFailsWithError ==
    (pc \notin {"checkPaths", "checkFiles"} /\ NoMetadataRecognized)
    => /\ pc = "failed"
       /\ error = "Error"
       /\ checkedContracts = <<>>
       /\ transport = <<>>
       /\ hash2file = EmptyMap
       /\ foundSources = EmptyMap /\ missingSources = EmptyMap
       /\ invalidSources = EmptyMap

\* checkFiles failed on a batch that holds a non-empty plain file and no metadata.
C5_Witness ==
    /\ pc = "failed"
    /\ NoMetadataRecognized
    /\ \E i \in DOMAIN files : files[i].buffer = PlainText(MaxContent)

\* C6: with at least one recognized metadata document in the batch,
\* checkFiles never fails.
C6_OnlyNoMetadataFails ==
    ~NoMetadataRecognized => pc # "failed"

MismatchedAnswer(t) ==
    /\ t.res.kind = "response"
    /\ t.res.status = 200
    /\ keccak256(t.res.body) # InfoOf(metadataFiles[t.m], t.fileName).keccak256

\* C7, the step: a request answered with status 200 and a body of another hash
\* puts the entry into missingSources with its declared hash and urls, into
\* no other map, leaves the index and the objects as they were, and the loop
\* goes on with the next entry.
C7_Step ==
    (/\ Len(transport') = Len(transport) + 1
     /\ MismatchedAnswer(transport'[Len(transport')]))
    => /\ fileName \in DOMAIN missingSources'
       /\ missingSources'[fileName] =
             [keccak256 |-> hash, urls |-> sourceInfo.urls]
       /\ fileName \notin DOMAIN foundSources'
       /\ fileName \notin DOMAIN invalidSources'
       /\ hash2file' = hash2file
       /\ heap' = heap
       /\ pc' = "sources"
       /\ k' = k + 1

\* C7, the result: in the returned contract that entry is missing only.
C7_Result ==
    \A j \in DOMAIN transport :
        (MismatchedAnswer(transport[j]) /\ transport[j].m \in DOMAIN checkedContracts)
        => LET c == checkedContracts[transport[j].m]
           IN  /\ transport[j].fileName \in DOMAIN c.missing
               /\ transport[j].fileName \notin DOMAIN c.solidity
               /\ transport[j].fileName \notin DOMAIN c.invalid

\* C7: a fetch answered with status 200 and a body of another hash than the
\* declared one leaves the source missing, never invalid or found, does not
\* touch the index, and the batch goes on.
C7_MismatchedFetchLeavesMissing == [][C7_Step]_vars /\ []C7_Result

\* checkFiles returned two contracts, and the first one went through a
\* mismatched answer.
C7_Witness ==
    /\ pc = "done"
    /\ Len(checkedContracts) >= 2
    /\ \E j \in DOMAIN transport :
          MismatchedAnswer(transport[j]) /\ transport[j].m = 1

RawContentHost == <<"raw.githubusercontent", ".", "com">>

GatewayHost == <<"ipfs.infura.io:5001">>

\* C8: every request either goes to the raw-content host, with the url
\* rewritten from a declared path on the host github.com, or goes to the
\* gateway, with the code of a declared url that starts with IPFS_PREFIX,
\* for a declared path under @openzeppelin.
C8_OnlyTrustedHosts ==
    \A j \in DOMAIN transport :
        LET t == transport[j]
            info == InfoOf(metadataFiles[t.m], t.fileName)
        IN  \/ /\ Host(trim(t.fileName)) = <<"github", ".", "com">>
               /\ t.url = replace(trim(t.fileName), "github", "raw.githubusercontent")
               /\ Host(t.url) = RawContentHost
            \/ /\ startsWith(trim(t.fileName), "@openzeppelin")
               /\ Host(t.url) = GatewayHost
               /\ \E u \in DOMAIN info.urls :
                     /\ startsWith(info.urls[u], IPFS_PREFIX)
                     /\ t.url = IpfsGateway \o Tail(info.urls[u])

VerifiedAnswer(t) ==
    /\ t.res.kind = "response"
    /\ t.res.status = 200
    /\ keccak256(t.res.body) = InfoOf(metadataFiles[t.m], t.fileName).keccak256

PositionOf(md, path) == CHOOSE i \in DOMAIN md.sources : md.sources[i][1] = path

\* The entries of the document at position i that have been classified.
Classified(i) ==
    IF i \in DOMAIN checkedContracts THEN Len(metadataFiles[i].sources)
    ELSE IF i = m /\ pc \in {"sources", "failed"} THEN k - 1
    ELSE 0

FoundOf(i) ==
    IF i \in DOMAIN checkedContracts THEN checkedContracts[i].solidity
    ELSE foundSources

\* C9: once a request for an entry with declared hash H was answered with
\* status 200 and a body of hash H, the index of that pass holds the body
\* under H, and every later entry of the document that declares H without
\* inline content is found with that body and without a request of its own.
C9_FetchedContentIsReused ==
    \A j \in DOMAIN transport :
        LET t == transport[j]
            md == metadataFiles[t.m]
            H == InfoOf(md, t.fileName).keccak256
        IN  VerifiedAnswer(t)
            => /\ (pc = "sources" /\ m = t.m)
                  => /\ H \in DOMAIN hash2file
                     /\ heap[hash2file[H]].content = t.res.body
               /\ \A q \in (PositionOf(md, t.fileName) + 1)..Classified(t.m) :
                     LET later == md.sources[q]
                     IN  (later[2].keccak256 = H /\ "content" \notin DOMAIN later[2])
                         => /\ later[1] \in DOMAIN FoundOf(t.m)
                            /\ heap[FoundOf(t.m)[later[1]]].content = t.res.body
                            /\ RequestsFor(t.m, later[1]) = {}

\* The declaration has no urls, or an empty list of them under a path that
\* GITHUB_REGEX does not match.
NoUrlsToTry(path, info) ==
    \/ "urls" \notin DOMAIN info
    \/ info.urls = <<>> /\ ~GITHUB_REGEX_test(trim(path))

Unresolvable(info) ==
    "content" \notin DOMAIN info /\ ~CandidateWithHash(info.keccak256)

\* No request of the pass over document i was answered with content of hash h.
NothingFetchedWithHash(i, h) ==
    \A j \in DOMAIN transport :
        (transport[j].m = i /\ VerifiedAnswer(transport[j]))
        => keccak256(transport[j].res.body) # h

MissingRecord(info) ==
    IF "urls" \in DOMAIN info
    THEN [keccak256 |-> info.keccak256, urls |-> info.urls]
    ELSE [keccak256 |-> info.keccak256]

\* In contract i the entry path is missing with its declared hash and urls, is
\* in no other map, no request was issued for it, and the contract is not valid.
MissingWithoutRequest(i, path) ==
    LET c == checkedContracts[i]
    IN  /\ path \in DOMAIN c.missing
        /\ c.missing[path] = MissingRecord(InfoOf(c.metadata, path))
        /\ path \notin DOMAIN c.solidity
        /\ path \notin DOMAIN c.invalid
        /\ RequestsFor(i, path) = {}
        /\ ~isValid(c)

C10_Result ==
    \A i \in DOMAIN checkedContracts :
        \A path \in DeclaredPathsOf(metadataFiles[i]) :
            LET info == InfoOf(metadataFiles[i], path)
            IN  (/\ Unresolvable(info)
                 /\ NothingFetchedWithHash(i, info.keccak256)
                 /\ NoUrlsToTry(path, info))
                => MissingWithoutRequest(i, path)

\* Classifying such an entry issues no request and does not end checkFiles.
C10_Step ==
    (/\ pc = "sources"
     /\ k <= Len(metadata.sources)
     /\ k' # k
     /\ Unresolvable(sourceInfo)
     /\ NothingFetchedWithHash(m, hash)
     /\ NoUrlsToTry(fileName, sourceInfo))
    => /\ pc' = "sources"
       /\ error' = "none"
       /\ transport' = transport
       /\ fileName \in DOMAIN missingSources'

IsRoundTrip ==
    /\ earlier # <<>>
    /\ \E call \in RoundTrips(earlier[Len(earlier)]) : files = call.files

\* C11: when the metadata of a contract that was returned valid is reconciled
\* again with every found content as inline content, no request goes to the
\* transport, the call does not fail, and the one contract it returns has every
\* declared source found with the content fed back, nothing missing or invalid.
C11_RoundTripIsValid ==
    IsRoundTrip =>
        /\ transport = <<>>
        /\ pc # "failed"
        /\ pc = "done" =>
              /\ Len(checkedContracts) = 1
              /\ isValid(checkedContracts[1])
              /\ LET c == Returned(checkedContracts[1])
                 IN  /\ DOMAIN c.solidity = DeclaredPathsOf(c.metadata)
                     /\ \A path \in DOMAIN c.solidity :
                           c.solidity[path] = InfoOf(c.metadata, path).content

\* A round trip is through, and the contract fed back had a content that came
\* over the transport and declared urls.
C11_Witness ==
    /\ IsRoundTrip
    /\ pc = "done"
    /\ earlier[Len(earlier)].transport # <<>>
    /\ \E i \in DOMAIN metadataFiles[1].sources :
          "urls" \in DOMAIN metadataFiles[1].sources[i][2]

\* An archive of two entries: a metadata document that declares one source, and
\* a file whose hash is the declared one.
MetadataWithMatchingSource(batch) ==
    /\ Len(batch) = 1
    /\ isZip(batch[1].buffer)
    /\ Len(batch[1].buffer.entries) = 2
    /\ \E i, j \in 1..2 :
          LET md == extractMetadataFromString(batch[1].buffer.entries[i])
          IN  /\ i # j
              /\ md # Null
              /\ Len(md.sources) = 1
              /\ md.sources[1][2].keccak256 = keccak256(batch[1].buffer.entries[j])

\* The call under way has the entries of the archive of the call before it as
\* its batch, and the transport answered both calls alike.
UnpackedAgain ==
    /\ earlier # <<>>
    /\ MetadataWithMatchingSource(earlier[Len(earlier)].files)
    /\ files = Unpacked(earlier[Len(earlier)].files)
    /\ pc \in {"done", "failed"}
    /\ transport = earlier[Len(earlier)].transport

\* The archive and its unpacked files end alike: the same exception, or the
\* same contracts with the same found paths and contents.
C12_SameOutcome ==
    UnpackedAgain =>
        /\ pc = earlier[Len(earlier)].pc
        /\ error = earlier[Len(earlier)].error
        /\ Outcome.contracts = earlier[Len(earlier)].contracts

\* C12: a batch of one archive with a metadata document and its matching source
\* yields what the two files yield unpacked: one contract with the source found
\* under its declared path with the same content, nothing missing or invalid.
C12_ArchiveAsUnpacked ==
    UnpackedAgain =>
        /\ C12_SameOutcome
        /\ pc = "done"
        /\ Len(checkedContracts) = 1
        /\ isValid(checkedContracts[1])
        /\ isValid(earlier[Len(earlier)].contracts[1])
        /\ DOMAIN checkedContracts[1].solidity
              = DeclaredPathsOf(checkedContracts[1].metadata)

\* checkPaths is through its loop over paths, and ignoring was passed.
PathsChecked == paths # <<>> /\ pc # "checkPaths" /\ ignoring.passed

\* The call under way is checkPaths over the existing paths of the call before.
ExistingAgain ==
    /\ earlier # <<>>
    /\ \E call \in ExistingAlone(earlier[Len(earlier)]) : paths = call.paths
    /\ pc \in {"done", "failed"}
    /\ transport = earlier[Len(earlier)].transport

\* C13: checkPaths with an ignoring array appends the paths that do not exist,
\* in the order given, and no path that exists; the call goes on to checkFiles
\* with the files below the existing paths, and it ends as checkPaths over the
\* existing paths alone ends: the same contracts or the same exception.
C13_NonexistentPathsAreIgnored ==
    /\ PathsChecked =>
          /\ ignoring.items = SelectSeq(paths, LAMBDA path : ~existsSync(disk, path))
          /\ \A i \in DOMAIN log : log[i] # "Encountered a nonexistent path"
          /\ files = checkPathsLoop(disk,
                        SelectSeq(paths, LAMBDA path : existsSync(disk, path)),
                        1, <<>>, NotPassed).files
    /\ ExistingAgain =>
          /\ pc = earlier[Len(earlier)].pc
          /\ error = earlier[Len(earlier)].error
          /\ Outcome.contracts = earlier[Len(earlier)].contracts
          /\ ignoring.items = <<>>

\* checkPaths ignored two paths, went on between them to read a directory, and
\* returned a contract; so did checkPaths over that directory alone.
C13_Witness ==
    /\ ExistingAgain
    /\ pc = "done"
    /\ checkedContracts # <<>>
    /\ LET before == earlier[Len(earlier)]
       IN  /\ Len(before.ignoring.items) = 2
           /\ before.ignoring.items[1] # before.ignoring.items[2]
           /\ ~existsSync(disk, before.paths[1])
           /\ existsSync(disk, before.paths[2])

\* The metadata documents recognized in a batch, in the order in which the
\* expanded batch holds them.
RecognizedIn(batch) ==
    LET hits == SelectSeq(parse(batch), LAMBDA f : recognize(f) # Null)
    IN  [i \in 1..Len(hits) |-> recognize(hits[i])]

\* C14: when checkFiles is over and the batch held at least one recognized
\* metadata document, the caller has one contract for each recognized document,
\* in the order of the documents in the expanded batch, the contracts with
\* missing or invalid sources among them.
C14_OneContractPerDocument ==
    (pc \in {"done", "failed"} /\ RecognizedIn(files) # <<>>) =>
        /\ pc = "done"
        /\ [i \in DOMAIN checkedContracts |-> checkedContracts[i].metadata]
              = RecognizedIn(files)

\* Before request j, the pass had put no fetched content of hash h into its index.
NothingIndexedBefore(j, h) ==
    \A e \in 1..(j - 1) :
        (/\ transport[e].m = transport[j].m
         /\ VerifiedAnswer(transport[e])
         /\ Truthy(transport[e].res.body))
        => keccak256(transport[e].res.body) # h

\* C15: a request goes to the transport only for a declared entry that has no
\* inline content, for whose declared hash the index holds no content (neither
\* a candidate of the batch nor content fetched before in the pass), and that
\* declares urls; and it is the only request for that entry in the pass,
\* whatever the transport answered and however many urls are declared.
C15_RequestIsLastResortAndSingle ==
    \A j \in DOMAIN transport :
        LET t == transport[j]
            info == InfoOf(metadataFiles[t.m], t.fileName)
        IN  /\ "content" \notin DOMAIN info
            /\ ~CandidateWithHash(info.keccak256)
            /\ NothingIndexedBefore(j, info.keccak256)
            /\ "urls" \in DOMAIN info
            /\ RequestsFor(t.m, t.fileName) = {j}

\* Something of the work area of the unzip call is on the disk.
WorkAreaExists ==
    \E p \in DOMAIN disk : Len(p) >= 2 /\ SubSeq(p, 1, 2) = tmpDir

\* C16: when unzip is left, by its return or by an exception, neither the work
\* area tmpDir nor anything in it exists.
C16_WorkAreaIsReleased ==
    unzipper.pc \in {"returned", "thrown"} => ~WorkAreaExists

\* An entry of an archive of the batch is an archive itself.
HasNestedArchive(batch) ==
    \E i \in DOMAIN batch :
        /\ isZip(batch[i].buffer)
        /\ \E e \in DOMAIN batch[i].buffer.entries : isZip(batch[i].buffer.entries[e])

\* C17: the files that checkFiles parses, scans and indexes are the files of
\* the batch with every archive replaced by its entries, once: an archive among
\* those entries is one of the parsed files, as it is, and its own entries are
\* not among them.
C17_ExpansionIsSingleLevel ==
    (HasNestedArchive(files) /\ parsedFiles # <<>>) =>
        {heap[parsedFiles[i]].content : i \in DOMAIN parsedFiles}
            = {Unpacked(files)[j].buffer : j \in DOMAIN Unpacked(files)}

\* What was requested for the document at position i, and what was answered.
ExchangeFor(requests, i) ==
    LET mine == SelectSeq(requests, LAMBDA t : t.m = i)
    IN  [j \in DOMAIN mine |->
            [fileName |-> mine[j].fileName, url |-> mine[j].url, res |-> mine[j].res]]

\* The call under way reconciled alone the document that the call before it
\* reconciled at position i, and the transport answered alike for it.
ReconciledAlone(i) ==
    /\ earlier # <<>>
    /\ \E call \in Alone(earlier[Len(earlier)]) : files = call.files
    /\ pc = "done"
    /\ Len(checkedContracts) = 1
    /\ i \in DOMAIN earlier[Len(earlier)].contracts
    /\ earlier[Len(earlier)].contracts[i].metadata = checkedContracts[1].metadata
    /\ ExchangeFor(earlier[Len(earlier)].transport, i) = ExchangeFor(transport, 1)

\* C18: the index that a document is reconciled over holds, for each hash, a
\* parsed file of the batch or content fetched for that very document; the
\* parsed files stay as they were parsed; and a document reconciled after
\* others gets the contract that it gets reconciled alone, when the transport
\* answers alike.
C18_DocumentsDoNotInterfere ==
    /\ pc = "sources" =>
          \A h \in DOMAIN hash2file :
              \/ hash2file[h] \in {parsedFiles[f] : f \in DOMAIN parsedFiles}
              \/ \E j \in DOMAIN transport :
                    /\ transport[j].m = m
                    /\ VerifiedAnswer(transport[j])
                    /\ keccak256(transport[j].res.body) = h
    /\ parsedFiles # <<>> =>
          \A f \in DOMAIN parsedFiles : heap[parsedFiles[f]] = parse(files)[f]
    /\ \A i \in 1..MaxMetadata :
          ReconciledAlone(i) =>
              Returned(checkedContracts[1]) = earlier[Len(earlier)].contracts[i]

\* The first document of a batch fetched a content; the second declares the
\* hash of that content and no urls, and is missing it, after the first as
\* well as alone.
C18_Witness ==
    /\ ReconciledAlone(2)
    /\ checkedContracts[1].missing # EmptyMap
    /\ \E j \in DOMAIN earlier[Len(earlier)].transport :
          LET t == earlier[Len(earlier)].transport[j]
          IN  /\ t.m = 1
              /\ t.res.kind = "response"
              /\ t.res.status = 200
              /\ Truthy(t.res.body)
              /\ \A path \in DOMAIN checkedContracts[1].missing :
                    checkedContracts[1].missing[path].keccak256 = keccak256(t.res.body)
              /\ earlier[Len(earlier)].contracts[1].missing = EmptyMap

\* The documents collected from the batch whose compilationTarget has no entry
\* or more than one.
OddTargets ==
    {i \in DOMAIN metadataFiles : compilationTargetsNumber(metadataFiles[i]) # 1}

\* C19: a recognized document whose compilationTarget has no entry or several
\* is reconciled like any other, so that a call that returns has a contract
\* for it, and the log holds the diagnostic that names its number of entries.
C19_OddTargetsAreLoggedAndProcessed ==
    \A i \in OddTargets :
        /\ pc = "done" => checkedContracts[i].metadata = metadataFiles[i]
        /\ \E l \in DOMAIN log : log[l] = compilationTargetMsg(metadataFiles[i])

\* C20: a service whose fetch flag was left out or given as false issues no
\* request to the transport, and every declared source that has no inline
\* content and no candidate in the batch is missing in its contract.
C20_NoFetchUnlessEnabled ==
    fetch \in {"undefined", "false"} =>
        /\ transport = <<>>
        /\ \A c \in Contracts :
              \A path \in DeclaredPathsOf(c.metadata) :
                  Unresolvable(InfoOf(c.metadata, path)) => path \in DOMAIN c.missing

====
